---- MODULE Spec2Model ----
(***************************************************************************)
(* The CrashCasino ink! contract (src/contract/lib.rs) as a state machine. *)
(*                                                                         *)
(* The contract's storage fields are the variables owner .. players.  Each *)
(* message is a pure operator from the storage at entry (a record), the    *)
(* caller and the message's inputs to an Outcome: the storage at exit, the *)
(* error ("Ok" when the message returns) and what the message did.  A Rust *)
(* panic (assert!, expect, unwrap, checked arithmetic) traps the contract, *)
(* and the host discards every storage write of a trapped call: Panic      *)
(* returns the storage the message was entered with.                       *)
(*                                                                         *)
(* Scaling.  TLC's integers are 32-bit, so two magnitudes are scaled down: *)
(* the price/scale literal 1_000_000_000_000 is Unit, and u32::MAX is      *)
(* U32Max.  Balance (u128) arithmetic is modelled without overflow: the    *)
(* amounts of the model stay far below 2^128 / 10^12.  The u32 sum of      *)
(* tick is checked arithmetic (ink! contracts are built with overflow      *)
(* checks), so it panics where it would exceed U32Max.                     *)
(***************************************************************************)
EXTENDS Integers, Sequences, FiniteSets, TLC

----------------------------------------------------------------------------
(* Bounds of the model *)

\* the block number (time marker) runs from 0 to MaxBlock
MaxBlock == 3
\* at most MaxDeposits successful enter_game calls in a behaviour
MaxDeposits == 3
\* stands for u32::MAX, the width of block numbers and of game_interval
U32Max == 31
\* stands for 1_000_000_000_000, the price of a game and the token scale
Unit == 1000

\* the callers; account a is the AccountId [a; 32]
Accounts == {1, 2}
\* game ids: game_interval >= 1 and a tick opens at most one game, so no more
\* games are opened than blocks have passed
MaxGames == MaxBlock
\* the values the constructor and set_game_interval are given
Intervals == {1, U32Max}
\* the values transferred with enter_game
Amounts == {0, Unit}

----------------------------------------------------------------------------
(* Storage *)

VARIABLES
    owner,            \* AccountId
    game_interval,    \* u32
    last_game_block,  \* u32
    current_game_id,  \* u64
    casino_pool,      \* Balance
    games,            \* Mapping<u64, Game>: a function on the ids stored
    players,          \* Mapping<(u64, AccountId), Player>: a function on the keys stored
    block,            \* env().block_number()
    last,             \* the call made by the latest step, and how it ended
    payout_count,     \* history: transfers made by exit_game, per (game, account)
    deposits,         \* history: successful enter_game calls so far
    deposited,        \* history: value received by enter_game, per (game, account)
    paid_out          \* history: value transferred by exit_game, per (game, account)

storage_vars == <<owner, game_interval, last_game_block, current_game_id,
                  casino_pool, games, players>>
vars == <<owner, game_interval, last_game_block, current_game_id, casino_pool,
          games, players, block, last, payout_count, deposits, deposited, paid_out>>

\* the storage as one value
Storage ==
    [owner |-> owner, game_interval |-> game_interval,
     last_game_block |-> last_game_block, current_game_id |-> current_game_id,
     casino_pool |-> casino_pool, games |-> games, players |-> players]

\* Player::default()
DefaultPlayer == [token_balance |-> 0, exited |-> FALSE]

\* the literals of start_new_game, enter_game and exit_game
GamePrice == Unit
TokenScale == Unit

----------------------------------------------------------------------------
(* Outcomes of a message *)

NoCall == [op |-> "none", caller |-> 0, err |-> "Ok", amount |-> 0, paid |-> 0,
           chance |-> "none", opened |-> FALSE]

\* the message returned: s is committed
Return(s) ==
    [st |-> s, err |-> "Ok", amount |-> 0, paid |-> 0, chance |-> "none", opened |-> FALSE]

\* the message panicked: the call traps and the storage at entry, s0, stands
Panic(s0, msg) ==
    [st |-> s0, err |-> msg, amount |-> 0, paid |-> 0, chance |-> "none", opened |-> FALSE]

----------------------------------------------------------------------------
(* pseudo_random: byte 0 of Blake2x256(salt), salt = game id (8 bytes BE) ++ *)
(* block number (4 bytes BE) ++ caller (32 bytes).  The table holds the      *)
(* digest's first byte for game ids 1..6, blocks 0..24, accounts 1..4.       *)

Blake2x256Byte0 ==
<<
    << <<136, 20, 101, 48>>,
       <<61, 155, 11, 2>>,
       <<158, 5, 117, 223>>,
       <<181, 151, 64, 228>>,
       <<121, 220, 179, 37>>,
       <<198, 208, 139, 28>>,
       <<133, 189, 215, 7>>,
       <<254, 209, 19, 162>>,
       <<131, 188, 203, 142>>,
       <<53, 107, 127, 91>>,
       <<236, 56, 186, 151>>,
       <<207, 94, 235, 154>>,
       <<161, 237, 98, 86>>,
       <<162, 101, 17, 131>>,
       <<233, 160, 138, 155>>,
       <<50, 62, 21, 65>>,
       <<69, 64, 74, 244>>,
       <<146, 49, 204, 31>>,
       <<61, 171, 243, 29>>,
       <<209, 234, 29, 102>>,
       <<20, 83, 89, 24>>,
       <<50, 164, 251, 218>>,
       <<212, 48, 173, 116>>,
       <<31, 39, 148, 62>>,
       <<60, 90, 127, 62>> >>,
    << <<168, 227, 89, 241>>,
       <<244, 246, 179, 37>>,
       <<229, 246, 20, 185>>,
       <<78, 201, 239, 59>>,
       <<123, 137, 204, 251>>,
       <<36, 13, 221, 100>>,
       <<240, 199, 93, 199>>,
       <<168, 57, 104, 77>>,
       <<19, 57, 5, 178>>,
       <<99, 39, 0, 66>>,
       <<179, 105, 186, 230>>,
       <<125, 147, 33, 95>>,
       <<206, 146, 77, 177>>,
       <<39, 243, 107, 224>>,
       <<173, 220, 11, 112>>,
       <<14, 163, 246, 50>>,
       <<228, 252, 116, 180>>,
       <<163, 250, 169, 162>>,
       <<115, 155, 255, 154>>,
       <<127, 51, 14, 30>>,
       <<223, 66, 6, 112>>,
       <<9, 148, 25, 226>>,
       <<32, 213, 79, 254>>,
       <<110, 198, 42, 222>>,
       <<70, 54, 47, 48>> >>,
    << <<0, 42, 195, 47>>,
       <<144, 177, 111, 233>>,
       <<119, 225, 47, 49>>,
       <<170, 113, 244, 45>>,
       <<20, 197, 136, 178>>,
       <<70, 56, 167, 66>>,
       <<230, 231, 190, 47>>,
       <<235, 70, 113, 24>>,
       <<108, 177, 82, 46>>,
       <<98, 121, 189, 15>>,
       <<227, 226, 15, 111>>,
       <<251, 186, 88, 165>>,
       <<104, 43, 66, 208>>,
       <<64, 193, 118, 246>>,
       <<82, 52, 47, 33>>,
       <<142, 206, 87, 118>>,
       <<231, 112, 169, 214>>,
       <<95, 51, 79, 186>>,
       <<13, 50, 206, 28>>,
       <<219, 63, 205, 47>>,
       <<225, 152, 163, 149>>,
       <<131, 177, 240, 73>>,
       <<241, 8, 205, 209>>,
       <<90, 84, 44, 170>>,
       <<192, 22, 28, 36>> >>,
    << <<88, 78, 28, 161>>,
       <<253, 244, 36, 38>>,
       <<154, 198, 254, 150>>,
       <<102, 174, 238, 17>>,
       <<137, 174, 66, 197>>,
       <<201, 202, 208, 87>>,
       <<168, 101, 138, 143>>,
       <<224, 211, 140, 34>>,
       <<59, 248, 123, 115>>,
       <<211, 45, 119, 213>>,
       <<109, 139, 165, 116>>,
       <<152, 191, 184, 210>>,
       <<157, 145, 63, 125>>,
       <<52, 202, 23, 184>>,
       <<170, 43, 108, 201>>,
       <<113, 103, 50, 215>>,
       <<94, 34, 107, 65>>,
       <<207, 169, 129, 59>>,
       <<1, 164, 230, 221>>,
       <<151, 194, 144, 225>>,
       <<177, 143, 79, 109>>,
       <<60, 15, 205, 68>>,
       <<33, 245, 106, 214>>,
       <<235, 95, 97, 51>>,
       <<47, 44, 123, 22>> >>,
    << <<125, 91, 173, 90>>,
       <<17, 144, 48, 65>>,
       <<186, 70, 110, 67>>,
       <<50, 226, 115, 202>>,
       <<11, 160, 80, 44>>,
       <<224, 48, 184, 137>>,
       <<163, 24, 221, 86>>,
       <<63, 21, 141, 95>>,
       <<113, 59, 219, 13>>,
       <<205, 23, 80, 180>>,
       <<90, 22, 188, 181>>,
       <<243, 78, 96, 83>>,
       <<247, 153, 42, 172>>,
       <<209, 102, 45, 146>>,
       <<1, 44, 23, 51>>,
       <<8, 134, 143, 237>>,
       <<147, 36, 135, 187>>,
       <<142, 172, 136, 77>>,
       <<137, 224, 217, 108>>,
       <<162, 108, 118, 174>>,
       <<110, 117, 161, 162>>,
       <<60, 78, 36, 160>>,
       <<36, 78, 29, 141>>,
       <<174, 160, 151, 219>>,
       <<29, 200, 197, 19>> >>,
    << <<8, 231, 236, 132>>,
       <<122, 60, 150, 232>>,
       <<146, 46, 182, 128>>,
       <<250, 160, 196, 59>>,
       <<122, 4, 27, 24>>,
       <<17, 40, 101, 64>>,
       <<52, 106, 113, 205>>,
       <<236, 129, 54, 210>>,
       <<159, 206, 245, 38>>,
       <<112, 180, 102, 35>>,
       <<205, 254, 4, 115>>,
       <<198, 242, 163, 239>>,
       <<90, 95, 192, 217>>,
       <<220, 175, 236, 21>>,
       <<129, 188, 199, 228>>,
       <<114, 233, 38, 177>>,
       <<41, 136, 158, 192>>,
       <<203, 36, 216, 183>>,
       <<67, 173, 83, 156>>,
       <<138, 177, 116, 144>>,
       <<238, 237, 201, 156>>,
       <<157, 160, 47, 22>>,
       <<216, 240, 72, 251>>,
       <<120, 116, 59, 205>>,
       <<252, 221, 64, 45>> >>
>>

\* salt is <<game id, block number, caller>>
pseudo_random(salt) == Blake2x256Byte0[salt[1]][salt[2] + 1][salt[3]]

----------------------------------------------------------------------------
(* tick *)

\* A plausible slip: line 81 forgotten, the new game is stored but never current.
start_new_game_not_current(s, now) ==
    LET game_id == s.current_game_id + 1
        new_game == [id |-> game_id, start_block |-> now, price |-> GamePrice,
                     crashed |-> FALSE, game_pool |-> 0]
    IN [s EXCEPT !.games = (game_id :> new_game) @@ s.games,
                 !.last_game_block = now]

\* A plausible variant: the round-open prunes the record two games back.
start_new_game_prunes(s, now) ==
    LET game_id == s.current_game_id + 1
        new_game == [id |-> game_id, start_block |-> now, price |-> GamePrice,
                     crashed |-> FALSE, game_pool |-> 0]
        kept == [g \in DOMAIN s.games \ {game_id - 2} |-> s.games[g]]
    IN [s EXCEPT !.games = (game_id :> new_game) @@ kept,
                 !.current_game_id = game_id,
                 !.last_game_block = now]

\* A plausible slip: line 82 forgotten, last_game_block keeps its old value.
start_new_game_stale_marker(s, now) ==
    LET game_id == s.current_game_id + 1
        new_game == [id |-> game_id, start_block |-> now, price |-> GamePrice,
                     crashed |-> FALSE, game_pool |-> 0]
    IN [s EXCEPT !.games = (game_id :> new_game) @@ s.games,
                 !.current_game_id = game_id]

\* the storage after the round-open; now is env().block_number()
start_new_game(s, now) ==
    LET game_id == s.current_game_id + 1
        new_game == [id |-> game_id, start_block |-> now, price |-> GamePrice,
                     crashed |-> FALSE, game_pool |-> 0]
    IN [s EXCEPT !.games = (game_id :> new_game) @@ s.games,
                 !.current_game_id = game_id,
                 !.last_game_block = now]

\* the outcome of resolving the current game: the storage, and the decision taken
end_previous_game_if_active(s, caller, now) ==
    IF s.current_game_id = 0 THEN Return(s)
    ELSE IF s.current_game_id \notin DOMAIN s.games
    THEN Panic(s, "UnwrapNone")
    ELSE LET game == s.games[s.current_game_id] IN
         IF game.crashed THEN Return(s)
         ELSE LET salt == <<s.current_game_id, now, caller>>
                  chance == pseudo_random(salt) % 2
              IN IF chance = 0
                 THEN [Return([s EXCEPT !.games =
                           (s.current_game_id :> [game EXCEPT !.crashed = TRUE]) @@ s.games])
                       EXCEPT !.chance = "crash"]
                 ELSE [Return(s) EXCEPT !.chance = "survive"]

\* A plausible slip: the interval left out of the comparison of line 64.
tick_ignores_interval(s, caller, now) ==
    IF s.last_game_block + s.game_interval > U32Max
    THEN Panic(s, "ArithmeticOverflow")
    ELSE IF now >= s.last_game_block
    THEN LET ended == end_previous_game_if_active(s, caller, now) IN
         IF ended.err # "Ok" THEN Panic(s, ended.err)
         ELSE [ended EXCEPT !.st = start_new_game(ended.st, now), !.opened = TRUE]
    ELSE Return(s)

\* A plausible variant: a game that survives its resolution stays the current game.
tick_keeps_survivor(s, caller, now) ==
    IF s.last_game_block + s.game_interval > U32Max
    THEN Panic(s, "ArithmeticOverflow")
    ELSE IF now >= s.last_game_block + s.game_interval
    THEN LET ended == end_previous_game_if_active(s, caller, now) IN
         IF ended.err # "Ok" THEN Panic(s, ended.err)
         ELSE IF ended.chance = "survive"
         THEN [ended EXCEPT !.st.last_game_block = now, !.opened = TRUE]
         ELSE [ended EXCEPT !.st = start_new_game(ended.st, now), !.opened = TRUE]
    ELSE Return(s)

\* A plausible slip: line 64 compared with > where the code has >=.
tick_after_interval(s, caller, now) ==
    IF s.last_game_block + s.game_interval > U32Max
    THEN Panic(s, "ArithmeticOverflow")
    ELSE IF now > s.last_game_block + s.game_interval
    THEN LET ended == end_previous_game_if_active(s, caller, now) IN
         IF ended.err # "Ok" THEN Panic(s, ended.err)
         ELSE [ended EXCEPT !.st = start_new_game(ended.st, now), !.opened = TRUE]
    ELSE Return(s)

\* the sum of line 64 is a checked u32 addition: it panics beyond U32Max
tick(s, caller, now) ==
    IF s.last_game_block + s.game_interval > U32Max
    THEN Panic(s, "ArithmeticOverflow")
    ELSE IF now >= s.last_game_block + s.game_interval
    THEN LET ended == end_previous_game_if_active(s, caller, now) IN
         IF ended.err # "Ok" THEN Panic(s, ended.err)
         ELSE [ended EXCEPT !.st = start_new_game(ended.st, now), !.opened = TRUE]
    ELSE Return(s)

----------------------------------------------------------------------------
(* enter_game *)

\* A plausible slip: the scale factor of line 116 left out.
tokens_unscaled(amount, price) == amount \div price

\* line 116: amount * 1_000_000_000_000 / game.price
tokens_for(amount, price) == (amount * TokenScale) \div price

\* A plausible slip: line 123 left out, the game's pool is not funded.
enter_game_pool_unfunded(s, caller, amount) ==
    LET game_id == s.current_game_id IN
    IF game_id \notin DOMAIN s.games THEN Panic(s, "NoActiveRound")
    ELSE LET game == s.games[game_id] IN
    IF game.crashed THEN Panic(s, "RoundCrashed")
    ELSE IF ~(amount > 0) THEN Panic(s, "NoFundsSent")
    ELSE LET tokens == tokens_for(amount, game.price)
             key == <<game_id, caller>>
             player == IF key \in DOMAIN s.players THEN s.players[key] ELSE DefaultPlayer
             entered == [token_balance |-> player.token_balance + tokens, exited |-> FALSE]
         IN [Return([s EXCEPT !.players = (key :> entered) @@ s.players,
                              !.casino_pool = @ + amount])
             EXCEPT !.amount = amount]

enter_game(s, caller, amount) ==
    LET game_id == s.current_game_id IN
    IF game_id \notin DOMAIN s.games THEN Panic(s, "NoActiveRound")
    ELSE LET game == s.games[game_id] IN
    IF game.crashed THEN Panic(s, "RoundCrashed")
    ELSE IF ~(amount > 0) THEN Panic(s, "NoFundsSent")
    ELSE LET tokens == tokens_for(amount, game.price)
             key == <<game_id, caller>>
             player == IF key \in DOMAIN s.players THEN s.players[key] ELSE DefaultPlayer
             entered == [token_balance |-> player.token_balance + tokens, exited |-> FALSE]
             funded == [game EXCEPT !.game_pool = @ + amount]
         IN [Return([s EXCEPT !.players = (key :> entered) @@ s.players,
                              !.games = (game_id :> funded) @@ s.games,
                              !.casino_pool = @ + amount])
             EXCEPT !.amount = amount]

----------------------------------------------------------------------------
(* exit_game *)

\* A plausible slip: the division of line 138 left out.
payout_unscaled(token_balance, price) == token_balance * price

\* line 138: player.token_balance * game.price / 1_000_000_000_000
payout_for(token_balance, price) == (token_balance * price) \div TokenScale

\* A plausible slip: the assertion of line 139 left out.
pay_out_unchecked(s, key, player, payout, transfer_ok) ==
    IF ~transfer_ok THEN Panic(s, "TransferFailed")
    ELSE [Return([s EXCEPT !.casino_pool = @ - payout,
                           !.players = (key :> [player EXCEPT !.exited = TRUE]) @@ s.players])
          EXCEPT !.paid = payout]

\* A plausible slip: line 143 left out, the player is paid but not marked.
pay_out_unmarked(s, key, player, payout, transfer_ok) ==
    IF ~(s.casino_pool >= payout) THEN Panic(s, "InsufficientCasinoFunds")
    ELSE IF ~transfer_ok THEN Panic(s, "TransferFailed")
    ELSE [Return([s EXCEPT !.casino_pool = @ - payout]) EXCEPT !.paid = payout]

\* A plausible slip: the pool is written before the transfer and a failed transfer
\* is reported as an error value, which does not trap and so keeps the write.
pay_out_writes_first(s, key, player, payout, transfer_ok) ==
    IF ~(s.casino_pool >= payout) THEN Panic(s, "InsufficientCasinoFunds")
    ELSE IF ~transfer_ok
    THEN [Return([s EXCEPT !.casino_pool = @ - payout]) EXCEPT !.err = "TransferFailed"]
    ELSE [Return([s EXCEPT !.casino_pool = @ - payout,
                           !.players = (key :> [player EXCEPT !.exited = TRUE]) @@ s.players])
          EXCEPT !.paid = payout]

\* lines 139-144: the payout is validated, transferred and booked;
\* transfer_ok is whether env().transfer(caller, payout) succeeds
pay_out(s, key, player, payout, transfer_ok) ==
    IF ~(s.casino_pool >= payout) THEN Panic(s, "InsufficientCasinoFunds")
    ELSE IF ~transfer_ok THEN Panic(s, "TransferFailed")
    ELSE [Return([s EXCEPT !.casino_pool = @ - payout,
                           !.players = (key :> [player EXCEPT !.exited = TRUE]) @@ s.players])
          EXCEPT !.paid = payout]

\* A plausible variant: a caller without a record in the current game is paid
\* for the record it holds in the game before.
exit_game_previous_round(s, caller, transfer_ok) ==
    LET current == s.current_game_id IN
    IF current \notin DOMAIN s.games THEN Panic(s, "NoActiveRound")
    ELSE LET game_id == IF <<current, caller>> \notin DOMAIN s.players /\ current > 1
                        THEN current - 1 ELSE current
             game == s.games[game_id]
             key == <<game_id, caller>>
         IN
    IF key \notin DOMAIN s.players THEN Panic(s, "PlayerNotFound")
    ELSE LET player == s.players[key] IN
    IF player.exited THEN Panic(s, "AlreadyExited")
    ELSE IF game.crashed THEN Panic(s, "RoundCrashed")
    ELSE LET payout == payout_for(player.token_balance, game.price) IN
         pay_out(s, key, player, payout, transfer_ok)

exit_game(s, caller, transfer_ok) ==
    LET game_id == s.current_game_id IN
    IF game_id \notin DOMAIN s.games THEN Panic(s, "NoActiveRound")
    ELSE LET game == s.games[game_id]
             key == <<game_id, caller>>
         IN
    IF key \notin DOMAIN s.players THEN Panic(s, "PlayerNotFound")
    ELSE LET player == s.players[key] IN
    IF player.exited THEN Panic(s, "AlreadyExited")
    ELSE IF game.crashed THEN Panic(s, "RoundCrashed")
    ELSE LET payout == payout_for(player.token_balance, game.price) IN
         pay_out(s, key, player, payout, transfer_ok)

----------------------------------------------------------------------------
(* set_game_interval, get_current_game *)

\* A plausible slip: the caller is not compared with the owner.
only_owner_anyone(s, caller) == TRUE

\* whether the assert_eq! of line 53 passes
only_owner(s, caller) == caller = s.owner

set_game_interval(s, caller, new_interval) ==
    IF ~only_owner(s, caller) THEN Panic(s, "PermissionDenied")
    ELSE Return([s EXCEPT !.game_interval = new_interval])

\* Option<Game>: <<>> is None, <<g>> is Some(g)
get_current_game(s) ==
    IF s.current_game_id \in DOMAIN s.games THEN <<s.games[s.current_game_id]>> ELSE <<>>

----------------------------------------------------------------------------
(* The state machine *)

\* the constructor, called by account 1 at block 0
Init ==
    /\ owner = 1
    /\ game_interval \in Intervals
    /\ block = 0
    /\ last_game_block = block
    /\ current_game_id = 0
    /\ casino_pool = 0
    /\ games = <<>>
    /\ players = <<>>
    /\ last = NoCall
    /\ payout_count = [k \in (1..MaxGames) \X Accounts |-> 0]
    /\ deposits = 0
    /\ deposited = [k \in (1..MaxGames) \X Accounts |-> 0]
    /\ paid_out = [k \in (1..MaxGames) \X Accounts |-> 0]

\* a call ended with outcome r: its storage is what the contract now holds
Commit(op, caller, r) ==
    /\ owner' = r.st.owner
    /\ game_interval' = r.st.game_interval
    /\ last_game_block' = r.st.last_game_block
    /\ current_game_id' = r.st.current_game_id
    /\ casino_pool' = r.st.casino_pool
    /\ games' = r.st.games
    /\ players' = r.st.players
    /\ last' = [op |-> op, caller |-> caller, err |-> r.err, amount |-> r.amount,
                paid |-> r.paid, chance |-> r.chance, opened |-> r.opened]

CallTick ==
    \E caller \in Accounts :
        LET r == tick(Storage, caller, block) IN
        /\ r.st.current_game_id <= MaxGames
        /\ Commit("tick", caller, r)
        /\ UNCHANGED <<block, payout_count, deposits, deposited, paid_out>>

CallEnterGame ==
    \E caller \in Accounts, amount \in Amounts :
        LET r == enter_game(Storage, caller, amount) IN
        /\ r.err = "Ok" => deposits < MaxDeposits
        /\ Commit("enter_game", caller, r)
        /\ deposits' = IF r.err = "Ok" THEN deposits + 1 ELSE deposits
        /\ deposited' = IF r.err = "Ok"
                        THEN [deposited EXCEPT ![<<current_game_id, caller>>] = @ + amount]
                        ELSE deposited
        /\ UNCHANGED <<block, payout_count, paid_out>>

CallExitGame ==
    \E caller \in Accounts, transfer_ok \in BOOLEAN :
        LET r == exit_game(Storage, caller, transfer_ok)
            key == <<current_game_id, caller>>
        IN /\ Commit("exit_game", caller, r)
           /\ payout_count' = IF r.err = "Ok"
                              THEN [payout_count EXCEPT ![key] = @ + 1]
                              ELSE payout_count
           /\ paid_out' = IF r.err = "Ok"
                          THEN [paid_out EXCEPT ![key] = @ + r.paid]
                          ELSE paid_out
           /\ UNCHANGED <<block, deposits, deposited>>

CallSetGameInterval ==
    \E caller \in Accounts, new_interval \in Intervals :
        /\ Commit("set_game_interval", caller,
                  set_game_interval(Storage, caller, new_interval))
        /\ UNCHANGED <<block, payout_count, deposits, deposited, paid_out>>

\* the chain produces a block
NextBlock ==
    /\ block < MaxBlock
    /\ block' = block + 1
    /\ last' = NoCall
    /\ UNCHANGED <<storage_vars, payout_count, deposits, deposited, paid_out>>

Next ==
    \/ CallTick
    \/ CallEnterGame
    \/ CallExitGame
    \/ CallSetGameInterval
    \/ NextBlock

Spec == Init /\ [][Next]_vars

----------------------------------------------------------------------------
(* The documented scenario: a contract constructed at block 0 with
   game_interval = 10, and deposits of 2 and 3 units of value *)

ScenarioMaxBlock == 20

ScenarioInterval == 10

ScenarioAmounts == {2 * Unit, 3 * Unit}

InitScenario ==
    /\ owner = 1
    /\ game_interval = ScenarioInterval
    /\ block = 0
    /\ last_game_block = block
    /\ current_game_id = 0
    /\ casino_pool = 0
    /\ games = <<>>
    /\ players = <<>>
    /\ last = NoCall
    /\ payout_count = [k \in (1..MaxGames) \X Accounts |-> 0]
    /\ deposits = 0
    /\ deposited = [k \in (1..MaxGames) \X Accounts |-> 0]
    /\ paid_out = [k \in (1..MaxGames) \X Accounts |-> 0]

ScenarioEnterGame ==
    \E caller \in Accounts, amount \in ScenarioAmounts :
        LET r == enter_game(Storage, caller, amount) IN
        /\ r.err = "Ok" => deposits < MaxDeposits
        /\ Commit("enter_game", caller, r)
        /\ deposits' = IF r.err = "Ok" THEN deposits + 1 ELSE deposits
        /\ deposited' = IF r.err = "Ok"
                        THEN [deposited EXCEPT ![<<current_game_id, caller>>] = @ + amount]
                        ELSE deposited
        /\ UNCHANGED <<block, payout_count, paid_out>>

ScenarioNextBlock ==
    /\ block < ScenarioMaxBlock
    /\ block' = block + 1
    /\ last' = NoCall
    /\ UNCHANGED <<storage_vars, payout_count, deposits, deposited, paid_out>>

NextScenario ==
    \/ CallTick
    \/ ScenarioEnterGame
    \/ CallExitGame
    \/ ScenarioNextBlock

SpecScenario == InitScenario /\ [][NextScenario]_vars

----------------------------------------------------------------------------
(* Properties *)

\* the latest step was a call of op
Called(op) == last'.op = op

CurrentKey(c) == <<current_game_id, c>>

\* exit_game by c gets as far as computing the payout (line 138)
ReachesPayout(c) ==
    /\ current_game_id \in DOMAIN games
    /\ CurrentKey(c) \in DOMAIN players
    /\ ~players[CurrentKey(c)].exited
    /\ ~games[current_game_id].crashed

\* token_balance * price / 10^12 for c in the current game
PayoutOf(c) ==
    (players[CurrentKey(c)].token_balance * games[current_game_id].price) \div TokenScale

\* The current game is never crashed: the tick that sets crashed on a game opens
\* the next game in the same call.  "RoundCrashed" is therefore never returned.
CurrentGameNotCrashed ==
    current_game_id \in DOMAIN games => ~games[current_game_id].crashed

\* C1: casino_pool is never negative, and an exit_game whose computed payout
\* exceeds casino_pool fails with InsufficientCasinoFunds and leaves casino_pool
\* as it was.
C1_PoolNeverNegative ==
    /\ [](casino_pool >= 0)
    /\ [][\A c \in Accounts :
            (Called("exit_game") /\ last'.caller = c /\ ReachesPayout(c)
                /\ PayoutOf(c) > casino_pool)
            => (last'.err = "InsufficientCasinoFunds" /\ casino_pool' = casino_pool)]_vars

\* C1 witness: an exit_game has just been refused for want of funds.
C1_Witness ==
    /\ last.op = "exit_game"
    /\ last.err = "InsufficientCasinoFunds"
    /\ ReachesPayout(last.caller)
    /\ PayoutOf(last.caller) > casino_pool

\* C2: at most one payout is ever transferred per (game, account) key.
C2_PaidAtMostOnce ==
    \A k \in DOMAIN payout_count : payout_count[k] <= 1

\* C4: exit_game by an account whose record in the current game has exited = true
\* fails with AlreadyExited; and an exit_game that directly follows a successful
\* exit_game of the same account fails and changes nothing.
C4_AlreadyExited ==
    /\ [][\A c \in Accounts :
            (Called("exit_game") /\ last'.caller = c
                /\ CurrentKey(c) \in DOMAIN players /\ players[CurrentKey(c)].exited)
            => last'.err = "AlreadyExited"]_vars
    /\ [][(last.op = "exit_game" /\ last.err = "Ok"
                /\ Called("exit_game") /\ last'.caller = last.caller)
            => (last'.err = "AlreadyExited" /\ UNCHANGED storage_vars
                /\ payout_count' = payout_count)]_vars

\* C4 witness: an exit_game of an account that had exited has just been refused.
C4_Witness ==
    /\ last.op = "exit_game"
    /\ last.err = "AlreadyExited"
    /\ players[CurrentKey(last.caller)].exited
    /\ payout_count[CurrentKey(last.caller)] = 1

\* C5: a call that fails leaves the whole storage as it was and transfers nothing.
C5_AllOrNothing ==
    [][(last'.op # "none" /\ last'.err # "Ok")
        => (UNCHANGED storage_vars /\ last'.paid = 0
            /\ payout_count' = payout_count)]_vars

\* C5 witness: an exit_game that passed every check has just failed in the transfer.
C5_Witness ==
    /\ last.op = "exit_game"
    /\ last.err = "TransferFailed"
    /\ casino_pool > 0

\* C6: a tick at a block below last_game_block + game_interval changes nothing
\* of the storage.
C6_EarlyTickNoOp ==
    [][(Called("tick") /\ block < last_game_block + game_interval)
        => UNCHANGED storage_vars]_vars

\* C6 witness: a tick has just been made too early, after a game was opened.
C6_Witness ==
    /\ last.op = "tick"
    /\ last.err = "Ok"
    /\ ~last.opened
    /\ current_game_id >= 1
    /\ block < last_game_block + game_interval

\* C7: current_game_id is 0 at construction, get_current_game is None while it
\* is 0, a round-open adds exactly 1 to it and nothing else changes it; the
\* games stored are those with ids 1..current_game_id.
C7_RoundIds ==
    /\ current_game_id = 0
    /\ [](current_game_id = 0 => get_current_game(Storage) = <<>>)
    /\ [](DOMAIN games = 1..current_game_id /\ \A g \in DOMAIN games : games[g].id = g)
    /\ [][IF Called("tick") /\ last'.opened
          THEN current_game_id' = current_game_id + 1
          ELSE current_game_id' = current_game_id]_vars

\* C7 witness: the second game has just been opened.
C7_Witness ==
    /\ last.op = "tick"
    /\ last.opened
    /\ current_game_id = 2

\* C8: set_game_interval by another account than owner fails with
\* PermissionDenied and changes nothing; by owner it changes at most
\* game_interval; no call changes owner.
C8_OnlyOwner ==
    /\ [][Called("set_game_interval")
            => IF last'.caller # owner
               THEN last'.err = "PermissionDenied" /\ UNCHANGED storage_vars
               ELSE last'.err = "Ok"
                    /\ UNCHANGED <<owner, last_game_block, current_game_id,
                                   casino_pool, games, players>>]_vars
    /\ [][owner' = owner]_vars

\* C8 witness: another account than owner has just been refused.
C8_Witness ==
    /\ last.op = "set_game_interval"
    /\ last.caller # owner
    /\ last.err = "PermissionDenied"

\* C9: a game that is crashed stays stored and crashed.
C9_CrashedOneWay ==
    [][\A g \in DOMAIN games :
        games[g].crashed => (g \in DOMAIN games' /\ games'[g].crashed)]_vars

\* C9 witness: a game crashed two round-opens ago, and calls were made since.
C9_Witness ==
    /\ current_game_id = 3
    /\ games[1].crashed
    /\ last.op = "enter_game"
    /\ last.err = "Ok"

\* C10 as stated: a tick whose resolution is "survive" leaves the resolved game
\* the current game.
C10_SurvivorStaysCurrent ==
    [][(Called("tick") /\ last'.chance = "survive")
        => current_game_id' = current_game_id]_vars

\* C10 amended: a tick whose resolution is "survive" leaves the resolved game
\* uncrashed and opens the next game in the same call, and the record of a
\* game that is no longer current never changes again (it is never re-rolled).
C10_SurvivorSuperseded ==
    /\ [][(Called("tick") /\ last'.chance = "survive")
            => /\ current_game_id' = current_game_id + 1
               /\ games'[current_game_id] = games[current_game_id]
               /\ ~games'[current_game_id].crashed]_vars
    /\ [][\A g \in DOMAIN games :
            g < current_game_id => (g \in DOMAIN games' /\ games'[g] = games[g])]_vars

\* C10 witness: game 1 survived its resolution and a later tick has just
\* resolved game 2 and opened game 3.
C10_Witness ==
    /\ last.op = "tick"
    /\ last.opened
    /\ current_game_id = 3
    /\ ~games[1].crashed

----------------------------------------------------------------------------
(* Properties of the ledger and of the round lifecycle *)

Keys == DOMAIN deposited

RECURSIVE SumOver(_, _)
\* the sum of f over the finite set S of its arguments
SumOver(f, S) ==
    IF S = {} THEN 0
    ELSE LET x == CHOOSE y \in S : TRUE IN f[x] + SumOver(f, S \ {x})

\* the value deposited into game g
DepositedInto(g) == SumOver(deposited, {k \in Keys : k[1] = g})

\* the sum of the pools of the games stored
PoolsTotal == SumOver([g \in DOMAIN games |-> games[g].game_pool], DOMAIN games)

\* C11 as stated: a successful enter_game of amount a credits the caller
\* floor(a * scale / price) tokens, clears exited and adds a to the game's pool
\* and to casino_pool; and an amount of two units of value at the price of one
\* unit credits 2 tokens.
C11_DepositCreditsTwo ==
    [][\A c \in Accounts :
        (Called("enter_game") /\ last'.caller = c /\ last'.err = "Ok")
        => LET key == CurrentKey(c)
               price == games[current_game_id].price
               before == IF key \in DOMAIN players THEN players[key].token_balance ELSE 0
           IN /\ players'[key].token_balance = before + ((last'.amount * Unit) \div price)
              /\ ~players'[key].exited
              /\ games'[current_game_id].game_pool
                     = games[current_game_id].game_pool + last'.amount
              /\ casino_pool' = casino_pool + last'.amount
              /\ (last'.amount = 2 * Unit /\ price = Unit)
                     => players'[key].token_balance = before + 2]_vars

\* C11 amended: as above, but two units of value at the price of one unit
\* credit 2 * scale tokens (2_000_000_000_000): the tokens are scaled.
C11_DepositCredits ==
    [][\A c \in Accounts :
        (Called("enter_game") /\ last'.caller = c /\ last'.err = "Ok")
        => LET key == CurrentKey(c)
               price == games[current_game_id].price
               before == IF key \in DOMAIN players THEN players[key].token_balance ELSE 0
           IN /\ players'[key].token_balance = before + ((last'.amount * Unit) \div price)
              /\ ~players'[key].exited
              /\ games'[current_game_id].game_pool
                     = games[current_game_id].game_pool + last'.amount
              /\ casino_pool' = casino_pool + last'.amount
              /\ (last'.amount = 2 * Unit /\ price = Unit)
                     => players'[key].token_balance = before + 2 * Unit]_vars

\* C11 witness: a deposit of two units of value was made by an account that had
\* exited the game, and its record is open again.
C11_Witness ==
    /\ last.op = "enter_game"
    /\ last.err = "Ok"
    /\ last.amount = 2 * Unit
    /\ payout_count[CurrentKey(last.caller)] = 1
    /\ ~players[CurrentKey(last.caller)].exited
    /\ players[CurrentKey(last.caller)].token_balance > 2 * Unit

\* C12 as stated: an exit_game that directly follows a successful enter_game of
\* amount a by the same account succeeds (the transfer succeeding), pays a and
\* takes casino_pool back to its value before the deposit.
C12_RoundTrip ==
    [][(last.op = "enter_game" /\ last.err = "Ok"
            /\ Called("exit_game") /\ last'.caller = last.caller
            /\ last'.err # "TransferFailed")
        => (last'.err = "Ok" /\ last'.paid = last.amount
            /\ casino_pool' = casino_pool - last.amount)]_vars

\* C12 amended: that holds of the first deposit under a (game, account) key, the
\* payout being floor(floor(a * scale / price) * price / scale) = a; for a key
\* that holds tokens already, a successful exit_game pays the whole token_balance.
C12_RoundTripFirstDeposit ==
    [][\A c \in Accounts :
        (last.op = "enter_game" /\ last.err = "Ok" /\ last.caller = c
            /\ Called("exit_game") /\ last'.caller = c
            /\ last'.err # "TransferFailed")
        => LET price == games[current_game_id].price
               rounded == ((((last.amount * Unit) \div price) * price) \div Unit)
           IN /\ deposited[CurrentKey(c)] = last.amount
                    => /\ last'.err = "Ok"
                       /\ last'.paid = rounded
                       /\ rounded = last.amount
                       /\ casino_pool' = casino_pool - last.amount
              /\ last'.err = "Ok"
                    => last'.paid =
                           ((players[CurrentKey(c)].token_balance * price) \div Unit)]_vars

\* C12 witness: an account's first deposit into a game has just been withdrawn
\* in full while another account's funds stay in the pool.
C12_Witness ==
    /\ last.op = "exit_game"
    /\ last.err = "Ok"
    /\ deposited[CurrentKey(last.caller)] = last.paid
    /\ payout_count[CurrentKey(last.caller)] = 1
    /\ casino_pool > 0

\* C13 as stated: with game_interval = 10 and construction at block 0, a tick at
\* block 0 opens game 1 at price Unit; a deposit of three units of value at
\* block 5 credits 3 tokens and makes game 1's pool three units; a tick at
\* block 10 resolves game 1 and then opens game 2.
C13_ScenarioAsStated ==
    /\ [][(Called("tick") /\ block = 0 /\ current_game_id = 0)
            => (current_game_id' = 1 /\ games'[1].price = Unit)]_vars
    /\ [][\A c \in Accounts :
            (Called("enter_game") /\ last'.caller = c /\ last'.amount = 3 * Unit
                /\ block = 5 /\ deposits = 0)
            => /\ last'.err = "Ok"
               /\ players'[<<1, c>>].token_balance = 3
               /\ games'[1].game_pool = 3 * Unit]_vars
    /\ [][(Called("tick") /\ block = 10 /\ current_game_id = 1)
            => (last'.chance # "none" /\ current_game_id' = 2)]_vars

\* C13 amended: with game_interval = 10 and construction at block 0 no game is
\* open before block 10: a tick before then changes nothing and a deposit is
\* refused.  The first tick at block >= 10 opens game 1 at price Unit without
\* resolving anything; a first deposit of three units of value into game 1
\* credits 3 * scale tokens and makes its pool three units; a tick at
\* start_block + 10 or later resolves game 1 by the parity of the hash (even:
\* crashed) and then opens game 2.
C13_Scenario ==
    /\ [](block < ScenarioInterval => current_game_id = 0)
    /\ [][(Called("tick") /\ block < ScenarioInterval)
            => (last'.err = "Ok" /\ ~last'.opened /\ UNCHANGED storage_vars)]_vars
    /\ [][(Called("enter_game") /\ block < ScenarioInterval)
            => (last'.err = "NoActiveRound" /\ UNCHANGED storage_vars)]_vars
    /\ [][(Called("tick") /\ current_game_id = 0 /\ block >= ScenarioInterval)
            => /\ last'.err = "Ok" /\ last'.opened /\ last'.chance = "none"
               /\ current_game_id' = 1
               /\ games'[1] = [id |-> 1, start_block |-> block, price |-> Unit,
                               crashed |-> FALSE, game_pool |-> 0]]_vars
    /\ [][\A c \in Accounts :
            (Called("enter_game") /\ last'.caller = c /\ last'.amount = 3 * Unit
                /\ current_game_id = 1 /\ games[1].game_pool = 0)
            => /\ last'.err = "Ok"
               /\ players'[<<1, c>>].token_balance = 3 * Unit
               /\ games'[1].game_pool = 3 * Unit]_vars
    /\ [][(Called("tick") /\ current_game_id = 1
                /\ block >= games[1].start_block + ScenarioInterval)
            => /\ last'.err = "Ok" /\ last'.opened
               /\ last'.chance \in {"crash", "survive"}
               /\ games'[1].crashed
                     = (pseudo_random(<<1, block, last'.caller>>) % 2 = 0)
               /\ games'[1] = [games[1] EXCEPT !.crashed = games'[1].crashed]
               /\ current_game_id' = 2
               /\ games'[2].start_block = block]_vars

\* C13 witness: game 1 was opened at block 10, three units of value were
\* deposited into it, and the tick at block 20 has resolved it and opened game 2.
C13_Witness ==
    /\ last.op = "tick"
    /\ last.opened
    /\ last.chance \in {"crash", "survive"}
    /\ block = 2 * ScenarioInterval
    /\ current_game_id = 2
    /\ games[1].start_block = ScenarioInterval
    /\ games[1].game_pool = 3 * Unit
    /\ \E c \in Accounts : players[<<1, c>>].token_balance = 3 * Unit

\* C14: a tick never fails.
C14_TickNeverFails ==
    last.op = "tick" => last.err = "Ok"

\* C15: the crash decision of a tick does not depend on the caller: from any
\* state, ticks by two callers at the same block take the same decision.
C15_CallerIndependent ==
    \A c1, c2 \in Accounts :
        current_game_id # 0 =>
            tick(Storage, c1, block).st.games[current_game_id].crashed
                = tick(Storage, c2, block).st.games[current_game_id].crashed

\* C16: a tick at a block >= last_game_block + game_interval succeeds; it
\* changes no stored game but, at most, the crashed flag of the game that was
\* current, and the current game is then a new record with the next id, opened
\* at this block, price Unit, not crashed, pool 0, and last_game_block is this
\* block.  Whenever a game is current last_game_block is its start_block, and
\* every game's price is Unit.
C16_ResolveThenOpen ==
    /\ [][(Called("tick") /\ block >= last_game_block + game_interval)
            => /\ last'.err = "Ok"
               /\ last'.opened
               /\ current_game_id' = current_game_id + 1
               /\ last_game_block' = block
               /\ DOMAIN games' = DOMAIN games \cup {current_game_id + 1}
               /\ games'[current_game_id + 1] =
                      [id |-> current_game_id + 1, start_block |-> block, price |-> Unit,
                       crashed |-> FALSE, game_pool |-> 0]
               /\ \A g \in DOMAIN games :
                      \/ games'[g] = games[g]
                      \/ /\ g = current_game_id
                         /\ games'[g] = [games[g] EXCEPT !.crashed = TRUE]]_vars
    /\ [](current_game_id # 0 => last_game_block = games[current_game_id].start_block)
    /\ [](\A g \in DOMAIN games : games[g].price = Unit)

\* C16 witness: a tick has just crashed game 1 and opened game 2.
C16_Witness ==
    /\ last.op = "tick"
    /\ last.opened
    /\ last.chance = "crash"
    /\ current_game_id = 2
    /\ games[1].crashed
    /\ games[2].start_block = block

\* C17: casino_pool is what was deposited less what was paid out, a game's pool
\* is what was deposited into it, so casino_pool is at most the sum of the
\* pools; tick and set_game_interval change neither casino_pool nor a pool.
C17_Conservation ==
    /\ [](casino_pool = SumOver(deposited, Keys) - SumOver(paid_out, Keys))
    /\ [](\A g \in DOMAIN games : games[g].game_pool = DepositedInto(g))
    /\ [](casino_pool <= PoolsTotal)
    /\ [][(Called("tick") \/ Called("set_game_interval"))
            => /\ casino_pool' = casino_pool
               /\ \A g \in DOMAIN games : games'[g].game_pool = games[g].game_pool]_vars

\* C17 witness: deposits were made into two games and a payout was made.
C17_Witness ==
    /\ current_game_id >= 2
    /\ games[1].game_pool > 0
    /\ games[2].game_pool > 0
    /\ SumOver(paid_out, Keys) > 0
    /\ casino_pool > 0

\* C18: no key is paid more than it deposited.
C18_NoMoneyCreated ==
    \A k \in Keys : paid_out[k] <= deposited[k]

\* C19: while the current game is not crashed, every account with a record in
\* it that has not exited can be paid: casino_pool covers its payout.
C19_OpenPositionsSolvent ==
    \A c \in Accounts : ReachesPayout(c) => casino_pool >= PayoutOf(c)

\* C20: enter_game and exit_game write no record but the current game's and the
\* caller's in it; the record of a game that is no longer current, the records
\* of its players and what was paid to them never change again.
C20_SupersededFrozen ==
    [][\/ UNCHANGED <<games, players, paid_out, deposited>>
       \/ /\ \A g \in 1..(current_game_id - 1) : games'[g] = games[g]
          /\ \A k \in Keys :
                k[1] < current_game_id
                    => /\ paid_out'[k] = paid_out[k]
                       /\ deposited'[k] = deposited[k]
                       /\ IF k \in DOMAIN players
                          THEN players'[k] = players[k]
                          ELSE k \notin DOMAIN players'
          /\ (Called("enter_game") \/ Called("exit_game"))
                => /\ DOMAIN games' = DOMAIN games
                   /\ \A k \in DOMAIN players' :
                          k # CurrentKey(last'.caller)
                              => (k \in DOMAIN players /\ players'[k] = players[k])]_vars

\* C20 witness: an account holding an open position in a game that survived and
\* was superseded has just asked to be paid and was refused.
C20_Witness ==
    /\ last.op = "exit_game"
    /\ last.err = "PlayerNotFound"
    /\ \E g \in DOMAIN games :
        /\ g < current_game_id
        /\ ~games[g].crashed
        /\ <<g, last.caller>> \in DOMAIN players
        /\ ~players[<<g, last.caller>>].exited
        /\ paid_out[<<g, last.caller>>] = 0

====
